---- MODULE Spec2Model ----
(***************************************************************************)
(* ECDH-ES key management for JWE (src/jwe/alg/ecdh_es.rs): the algorithm   *)
(* value and its two constructors, EcdhEsJweEncrypter::encrypt and          *)
(* EcdhEsJweDecrypter::decrypt, and set_key_id.                             *)
(*                                                                          *)
(* Byte strings are sequences of 0..255, base64url text is a sequence of    *)
(* one-character strings, other text (claim names, "EC", "P-256") is a      *)
(* string.  The curve arithmetic of the backend is a Diffie-Hellman group   *)
(* of integers modulo a prime with one-byte coordinates; the length of the  *)
(* shared secret of each curve is kept, since AES key setup depends on it.  *)
(* SHA-256 and AES Key Wrap are symbolic: a digest is the tuple of the      *)
(* parts fed to the hasher, a wrapped key is the pair (kek, payload).       *)
(***************************************************************************)
EXTENDS Integers, Sequences, FiniteSets, TLC

VARIABLES algorithm, encrypter, decrypter, header, ret, last_enc

vars == <<algorithm, encrypter, decrypter, header, ret, last_enc>>

----------------------------------------------------------------------------
(* Option<T> and Result<T, E>                                               *)

None == [some |-> FALSE]

Some(v) == [some |-> TRUE, v |-> v]

Ok(v) == [ok |-> TRUE, v |-> v]

Err(e) == [ok |-> FALSE, err |-> e]

\* a panic (unreachable!()) unwinds out of the call: no value, no JoseError
Panic == [ok |-> FALSE, panic |-> TRUE]

IsPanic(r) == "panic" \in DOMAIN r

\* the call returned Err(JoseError::kind)
IsErr(r, kind) == "err" \in DOMAIN r /\ r.err = kind

----------------------------------------------------------------------------
(* serde_json::Value, as far as the code distinguishes its variants          *)

String(s) == [t |-> "String", s |-> s]

Number(n) == [t |-> "Number", n |-> n]

Object(m) == [t |-> "Object", m |-> m]

\* Map::get
MapGet(m, k) == IF k \in DOMAIN m THEN Some(m[k]) ELSE None

----------------------------------------------------------------------------
(* bounds                                                                   *)

\* private scalars of recipient and ephemeral keys are 2..MaxScalar
MaxScalar == 3

Scalars == 2..MaxScalar

\* requested key lengths in bytes: below, at and above one SHA-256 digest
KeyLens == {16, 24, 32, 50}

----------------------------------------------------------------------------
(* base64 (URL_SAFE_NO_PAD)                                                 *)

B64Alphabet ==
    << "A","B","C","D","E","F","G","H","I","J","K","L","M","N","O","P",
       "Q","R","S","T","U","V","W","X","Y","Z","a","b","c","d","e","f",
       "g","h","i","j","k","l","m","n","o","p","q","r","s","t","u","v",
       "w","x","y","z","0","1","2","3","4","5","6","7","8","9","-","_" >>

\* the 6-bit value of each character of the alphabet
B64Value == [c \in {B64Alphabet[i] : i \in 1..64} |->
                (CHOOSE i \in 1..64 : B64Alphabet[i] = c) - 1]

\* the 6-bit value of a character, or -1 for a character outside the alphabet
Sextet(c) == IF c \in DOMAIN B64Value THEN B64Value[c] ELSE -1

RECURSIVE DecodeSextets(_)
\* bytes of a sequence of sextets; an Err for an impossible length or for
\* non-zero bits left over in the last symbol
DecodeSextets(sx) ==
    IF Len(sx) = 0 THEN Ok(<<>>)
    ELSE IF Len(sx) = 1 THEN Err(<<"InvalidLength">>)
    ELSE IF Len(sx) = 2 THEN
        LET v == sx[1] * 64 + sx[2]
        IN  IF v % 16 # 0 THEN Err(<<"InvalidLastSymbol">>) ELSE Ok(<<v \div 16>>)
    ELSE IF Len(sx) = 3 THEN
        LET v == sx[1] * 4096 + sx[2] * 64 + sx[3]
        IN  IF v % 4 # 0 THEN Err(<<"InvalidLastSymbol">>)
            ELSE Ok(<<v \div 1024, (v \div 4) % 256>>)
    ELSE
        LET v    == sx[1] * 262144 + sx[2] * 4096 + sx[3] * 64 + sx[4]
            rest == DecodeSextets(SubSeq(sx, 5, Len(sx)))
        IN  IF ~rest.ok THEN rest
            ELSE Ok(<<v \div 65536, (v \div 256) % 256, v % 256>> \o rest.v)

\* base64::decode_config(val, base64::URL_SAFE_NO_PAD)
decode_config(text) ==
    LET sx == [i \in 1..Len(text) |-> Sextet(text[i])]
    IN  IF \E i \in 1..Len(sx) : sx[i] = -1 THEN Err(<<"InvalidByte">>)
        ELSE DecodeSextets(sx)

RECURSIVE EncodeSextets(_)
EncodeSextets(bytes) ==
    IF Len(bytes) = 0 THEN <<>>
    ELSE IF Len(bytes) = 1 THEN
        <<bytes[1] \div 4, (bytes[1] % 4) * 16>>
    ELSE IF Len(bytes) = 2 THEN
        LET v == bytes[1] * 256 + bytes[2]
        IN  <<v \div 1024, (v \div 16) % 64, (v % 16) * 4>>
    ELSE
        LET v == bytes[1] * 65536 + bytes[2] * 256 + bytes[3]
        IN  <<v \div 262144, (v \div 4096) % 64, (v \div 64) % 64, v % 64>>
            \o EncodeSextets(SubSeq(bytes, 4, Len(bytes)))

\* the unpadded base64url text of a byte string
encode_config(bytes) ==
    LET sx == EncodeSextets(bytes)
    IN  [i \in 1..Len(sx) |-> B64Alphabet[sx[i] + 1]]

----------------------------------------------------------------------------
(* EcdhEsKeyType and EcdhEsJweAlgorithm                                      *)

EcCurves == {"P256", "P384", "P521", "Secp256K1"}

XCurves == {"X25519", "X448"}

Ec(curve) == [fam |-> "Ec", curve |-> curve]

X(curve) == [fam |-> "X", curve |-> curve]

KeyTypes == {Ec(c) : c \in EcCurves} \cup {X(c) : c \in XCurves}

\* EcCurve::name, XCurve::name
CurveName(curve) ==
    CASE curve = "P256"      -> "P-256"
      [] curve = "P384"      -> "P-384"
      [] curve = "P521"      -> "P-521"
      [] curve = "Secp256K1" -> "secp256k1"
      [] curve = "X25519"    -> "X25519"
      [] curve = "X448"      -> "X448"

\* EcdhEsKeyType::key_type
key_type(kt) == IF kt.fam = "Ec" THEN "EC" ELSE "OKP"

\* EcdhEsKeyType::curve_name
curve_name(kt) == CurveName(kt.curve)

Algorithms == {"EcdhEs", "EcdhEsA128Kw", "EcdhEsA192Kw", "EcdhEsA256Kw"}

\* JweAlgorithm::name
name(alg) ==
    CASE alg = "EcdhEs"       -> "ECDH-ES"
      [] alg = "EcdhEsA128Kw" -> "ECDH-ES+A128KW"
      [] alg = "EcdhEsA192Kw" -> "ECDH-ES+A192KW"
      [] alg = "EcdhEsA256Kw" -> "ECDH-ES+A256KW"

is_direct(alg) == alg = "EcdhEs"

----------------------------------------------------------------------------
(* the cryptographic backend                                                *)

RECURSIVE PowMod(_, _)
PowMod(b, e) == IF e = 0 THEN 1 ELSE (b * PowMod(b, e - 1)) % 251

\* the public value of a private scalar
PublicOf(d) == PowMod(6, d)

\* the second coordinate of the point of a named curve with first coordinate x
CurveY(x) == (x * x + 7) % 251

\* length in bytes of the shared secret derive_to_vec returns on a curve
SecretLen(curve) ==
    CASE curve = "P256"      -> 32
      [] curve = "P384"      -> 48
      [] curve = "P521"      -> 66
      [] curve = "Secp256K1" -> 32
      [] curve = "X25519"    -> 32
      [] curve = "X448"      -> 56

\* EcKeyPair::to_pkcs8, XKeyPair::to_pkcs8: the DER envelope of key bytes
to_pkcs8(body, is_public, curve) ==
    [body |-> body, is_public |-> is_public, curve |-> curve]

\* PKey::public_key_from_der: an uncompressed point 0x04 || x || y that lies
\* on the named curve, or the raw public value of a Montgomery curve
public_key_from_der(pkcs8) ==
    LET b == pkcs8.body
    IN  IF ~pkcs8.is_public THEN Err(<<"der">>)
        ELSE IF pkcs8.curve \in EcCurves THEN
            IF Len(b) = 3 /\ b[1] = 4 /\ b[2] \in 1..250 /\ b[3] = CurveY(b[2])
            THEN Ok([curve |-> pkcs8.curve, x |-> b[2]])
            ELSE Err(<<"der">>)
        ELSE
            IF Len(b) = 1
            THEN Ok([curve |-> pkcs8.curve, x |-> b[1]])
            ELSE Err(<<"der">>)

\* DerBuilder: SEQUENCE { INTEGER 1, OCTET STRING d } for a named curve,
\* OCTET STRING d for a Montgomery curve
DerEcPrivate(d) == [version |-> <<1>>, octets |-> d]

DerXPrivate(d) == [octets |-> d]

\* PKey::private_key_from_der
private_key_from_der(pkcs8) ==
    LET o == pkcs8.body.octets
    IN  IF pkcs8.is_public THEN Err(<<"der">>)
        ELSE IF Len(o) = 1 /\ o[1] \in 1..249
        THEN Ok([curve |-> pkcs8.curve, d |-> o[1]])
        ELSE Err(<<"der">>)

\* Deriver::new, set_peer, derive_to_vec: the shared secret Z
derive_to_vec(private_key, peer) ==
    IF private_key.curve # peer.curve THEN Err(<<"derive">>)
    ELSE Ok([len |-> SecretLen(peer.curve), z |-> PowMod(peer.x, private_key.d)])

\* SHA-256 over the parts given to Hasher::update, in order
Sha256(parts) == [sha256 |-> parts]

\* u32::to_be_bytes
to_be_bytes(n) ==
    <<(n \div 16777216) % 256, (n \div 65536) % 256, (n \div 256) % 256, n % 256>>

\* AesKey::new_encrypt: AES keys are 128, 192 or 256 bits
AesKey_new_encrypt(key) ==
    IF key.len \in {16, 24, 32} THEN Ok(key) ELSE Err(<<"KeyError">>)

\* aes::wrap_key: the output buffer must hold the input and 8 bytes more
\* (an assertion), and the input is a multiple of 8 bytes, at least 16
wrap_key(aes, out_len, in) ==
    IF out_len < in.len + 8 THEN Panic
    ELSE IF in.len % 8 # 0 \/ in.len < 16 THEN Err(<<"KeyError">>)
    ELSE Ok([len |-> in.len + 8, wrapped |-> in, kek |-> aes])

\* aes::unwrap_key: the input must hold the output and 8 bytes more (an
\* assertion); the integrity check passes only under the wrapping key
unwrap_key(aes, out_len, in) ==
    IF out_len + 8 > in.len THEN Panic
    ELSE IF in.len % 8 # 0 \/ in.len < 24 THEN Err(<<"KeyError">>)
    ELSE IF "kek" \notin DOMAIN in THEN Err(<<"KeyError">>)
    ELSE IF in.kek # aes THEN Err(<<"KeyError">>)
    ELSE Ok(in.wrapped)

----------------------------------------------------------------------------
(* Jwk and JweHeader: the accessors the code calls                          *)

\* Jwk::parameter
parameter(jwk, k) == MapGet(jwk.params, k)

\* Jwk::is_for_key_operation: membership in the key's declared operations
is_for_key_operation(jwk, op) == op \in jwk.key_ops

\* JoseHeader::claim
claim(h, k) == MapGet(h, k)

\* JweHeader::set_claim(k, Some(v))
set_claim(h, k, v) == [c \in DOMAIN h \cup {k} |-> IF c = k THEN v ELSE h[c]]

\* JweHeader::set_algorithm
set_algorithm(h, n) == set_claim(h, "alg", String(n))

\* JweHeader::content_encryption
content_encryption(h) ==
    IF "enc" \in DOMAIN h /\ h["enc"].t = "String" THEN Some(h["enc"].s) ELSE None

\* util::ceiling: division rounded up
ceiling(len, div) == (len + div - 1) \div div

\* JoseError of a kind, with the check that raised it
JoseError(kind, msg) == [ok |-> FALSE, err |-> kind, msg |-> msg]

----------------------------------------------------------------------------
(* EcdhEsJweAlgorithm::encrypter_from_jwk, decrypter_from_jwk               *)

\* match jwk.parameter(k): a string that decodes as base64url
B64Parameter(jwk, k) ==
    LET p == parameter(jwk, k)
    IN  IF ~p.some THEN Err(<<k, "is required">>)
        ELSE IF p.v.t # "String" THEN Err(<<k, "must be a string">>)
        ELSE LET b == decode_config(p.v.s)
             IN  IF b.ok THEN b ELSE Err(<<k, "base64">>)

\* JwkChecks without the match on jwk.key_use()
JwkChecks_NoUse(self, jwk) ==
    IF jwk.kty \notin {"EC", "OKP"} THEN Err(<<"kty", "must be EC or OKP">>)
    ELSE IF ~is_for_key_operation(jwk, "deriveKey")
         THEN Err(<<"key_ops", "must contains deriveKey">>)
    ELSE IF jwk.alg.some /\ jwk.alg.v # name(self) THEN Err(<<"alg", "must be">>)
    ELSE Ok(jwk.kty)

\* the checks both constructors start with, lines 55-71 and 141-157:
\* Ok(kty), or the first failure
JwkChecks(self, jwk) ==
    IF jwk.kty \notin {"EC", "OKP"} THEN Err(<<"kty", "must be EC or OKP">>)
    ELSE IF jwk.use.some /\ jwk.use.v # "enc" THEN Err(<<"use", "must be enc">>)
    ELSE IF ~is_for_key_operation(jwk, "deriveKey")
         THEN Err(<<"key_ops", "must contains deriveKey">>)
    ELSE IF jwk.alg.some /\ jwk.alg.v # name(self) THEN Err(<<"alg", "must be">>)
    ELSE Ok(jwk.kty)

\* match val.as_str() of "crv": Ok(key type), or unsupported for the kty
CurveOf(kty, val) ==
    IF kty = "EC" THEN
        IF \E c \in EcCurves : CurveName(c) = val
        THEN Ok(Ec(CHOOSE c \in EcCurves : CurveName(c) = val))
        ELSE Err(<<"crv", "EC key doesn't support">>)
    ELSE
        IF \E c \in XCurves : CurveName(c) = val
        THEN Ok(X(CHOOSE c \in XCurves : CurveName(c) = val))
        ELSE Err(<<"crv", "OKP key doesn't support">>)

\* lines 72-126: the public key handle and the key type
EncrypterKey(kty, jwk) ==
    LET crv == parameter(jwk, "crv")
    IN  IF ~crv.some THEN Err(<<"crv", "is required">>)
        ELSE IF crv.v.t # "String" THEN Err(<<"crv", "must be a string">>)
        ELSE LET kt == CurveOf(kty, crv.v.s)
             IN  IF ~kt.ok THEN kt
                 ELSE IF kt.v.fam = "Ec" THEN
                     LET x == B64Parameter(jwk, "x")
                         y == B64Parameter(jwk, "y")
                     IN  IF ~x.ok THEN x
                         ELSE IF ~y.ok THEN y
                         ELSE LET vec == <<4>> \o x.v \o y.v
                                  key == public_key_from_der(
                                             to_pkcs8(vec, TRUE, kt.v.curve))
                              IN  IF ~key.ok THEN key
                                  ELSE Ok([key |-> key.v, key_type |-> kt.v])
                 ELSE
                     LET x == B64Parameter(jwk, "x")
                     IN  IF ~x.ok THEN x
                         ELSE LET key == public_key_from_der(
                                             to_pkcs8(x.v, TRUE, kt.v.curve))
                              IN  IF ~key.ok THEN key
                                  ELSE Ok([key |-> key.v, key_type |-> kt.v])

\* lines 158-211: the private key handle and the key type
DecrypterKey(kty, jwk) ==
    LET crv == parameter(jwk, "crv")
    IN  IF ~crv.some THEN Err(<<"crv", "is required">>)
        ELSE IF crv.v.t # "String" THEN Err(<<"crv", "must be a string">>)
        ELSE LET kt == CurveOf(kty, crv.v.s)
             IN  IF ~kt.ok THEN kt
                 ELSE LET d == B64Parameter(jwk, "d")
                      IN  IF ~d.ok THEN d
                          ELSE LET der == IF kt.v.fam = "Ec"
                                          THEN DerEcPrivate(d.v)
                                          ELSE DerXPrivate(d.v)
                                   key == private_key_from_der(
                                              to_pkcs8(der, FALSE, kt.v.curve))
                               IN  IF ~key.ok THEN key
                                   ELSE Ok([key |-> key.v, key_type |-> kt.v])

encrypter_from_jwk(self, jwk) ==
    LET kty == JwkChecks(self, jwk)
        k   == EncrypterKey(kty.v, jwk)
    IN  IF ~kty.ok THEN JoseError("InvalidKeyFormat", kty.err)
        ELSE IF ~k.ok THEN JoseError("InvalidKeyFormat", k.err)
        ELSE Ok([algorithm  |-> self,
                 key_type   |-> k.v.key_type,
                 public_key |-> k.v.key,
                 key_id     |-> jwk.kid])

decrypter_from_jwk(self, jwk) ==
    LET kty == JwkChecks(self, jwk)
        k   == DecrypterKey(kty.v, jwk)
    IN  IF ~kty.ok THEN JoseError("InvalidKeyFormat", kty.err)
        ELSE IF ~k.ok THEN JoseError("InvalidKeyFormat", k.err)
        ELSE Ok([algorithm   |-> self,
                 key_type    |-> k.v.key_type,
                 private_key |-> k.v.key,
                 key_id      |-> jwk.kid])

\* set_key_id that keeps the old identifier when given None
set_key_id_KeepsOnNone(self, key_id) ==
    IF key_id.some THEN [self EXCEPT !.key_id = key_id] ELSE self

\* set_key_id of either instance
set_key_id(self, key_id) == [self EXCEPT !.key_id = key_id]

----------------------------------------------------------------------------
(* the parts encrypt and decrypt share                                      *)

\* MessageDigest::sha256().size()
DigestSize == 32

\* bytes AES Key Wrap adds to its input
WrapOverhead == 8

\* the half-open range a..b of a for loop
Range(a, b) == a..(b - 1)

\* match header.claim(k): absent, or a string that decodes as base64url
HeaderB64Claim(h, k) ==
    LET c == claim(h, k)
    IN  IF ~c.some THEN Ok(None)
        ELSE IF c.v.t # "String" THEN Err(<<k, "header claim must be string">>)
        ELSE LET b == decode_config(c.v.s)
             IN  IF b.ok THEN Ok(Some(b.v)) ELSE Err(<<k, "base64">>)

\* the bytes an optional apu/apv adds to the hash input
OptBytes(o) == IF o.some THEN o.v ELSE <<>>

\* Vec::truncate on a key of whole digests: a no-op at or below its length
truncate(key, len) ==
    IF len >= key.len THEN key
    ELSE [len |-> len, blocks |-> SubSeq(key.blocks, 1, ceiling(len, DigestSize))]

\* the "concat KDF" loop, lines 372-393 (and again 586-607)
ConcatKdf(derived_key, enc, apu, apv, key_len) ==
    LET rounds == Range(1, ceiling(key_len, DigestSize))
        digest(i) == Sha256(<<to_be_bytes(i), derived_key, enc,
                              OptBytes(apu) \o OptBytes(apv), to_be_bytes(key_len)>>)
        blocks == [i \in rounds |-> digest(i)]
        key    == [len |-> DigestSize * Cardinality(rounds), blocks |-> blocks]
    IN  IF key.len # key_len THEN truncate(key, key_len) ELSE key

\* one "hash" step for each round of the loop
HashSteps(key_len) == [i \in Range(1, ceiling(key_len, DigestSize)) |-> "hash"]

\* the JWK of a generated key pair's public half: x, and y on a named curve
to_jwk_public_key(kt, d) ==
    IF kt.fam = "Ec"
    THEN [x |-> String(encode_config(<<PublicOf(d)>>)),
          y |-> String(encode_config(<<CurveY(PublicOf(d))>>))]
    ELSE [x |-> String(encode_config(<<PublicOf(d)>>))]

\* outcome of a call: the header as the call leaves it, what it returns, and
\* the steps it ran, in order
Outcome(h, result, steps) == [header |-> h, result |-> result, steps |-> steps]

----------------------------------------------------------------------------
(* EcdhEsJweEncrypter::encrypt; gen is what EcKeyPair::generate or          *)
(* XKeyPair::generate returns: Ok(private scalar) or an error               *)

\* lines 395-412: Some(wrapped key) under a wrapping algorithm, else None
EncryptedKey(self, derived_key, key, key_len) ==
    IF self.algorithm # "EcdhEs" THEN
        LET aes == AesKey_new_encrypt(derived_key)
            w   == wrap_key(aes.v, key_len + WrapOverhead, key)
        IN  IF ~aes.ok THEN aes
            ELSE IF ~w.ok THEN w
            ELSE Ok(Some(w.v))
    ELSE Ok(None)

\* EpkMap with the key type label of named curves for every key
EpkMap_AlwaysEc(self, d) ==
    LET jwk == to_jwk_public_key(self.key_type, d)
    IN  [k \in {"kty", "crv", "x"} \cup (IF self.key_type.fam = "Ec" THEN {"y"} ELSE {})
           |-> IF k = "kty" THEN String("EC")
               ELSE IF k = "crv" THEN String(curve_name(self.key_type))
               ELSE jwk[k]]

\* lines 319-359: the map installed as "epk", for the generated scalar d
EpkMap(self, d) ==
    LET jwk == to_jwk_public_key(self.key_type, d)
    IN  [k \in {"kty", "crv", "x"} \cup (IF self.key_type.fam = "Ec" THEN {"y"} ELSE {})
           |-> IF k = "kty" THEN String(key_type(self.key_type))
               ELSE IF k = "crv" THEN String(curve_name(self.key_type))
               ELSE jwk[k]]

\* encrypt that writes "alg", generates the key pair and installs "epk"
\* before it reads "apu" and "apv"
encrypt_HeaderFirst(self, h, key_len, gen) ==
    LET apu == HeaderB64Claim(h, "apu")
        apv == HeaderB64Claim(h, "apv")
        h1  == set_algorithm(h, name(self.algorithm))
        map == EpkMap(self, gen.v)
        private_key == [curve |-> self.key_type.curve, d |-> gen.v]
        h2  == set_claim(h1, "epk", Object(map))
        z   == derive_to_vec(private_key, self.public_key)
        enc == content_encryption(h2)
        key == ConcatKdf(z.v, enc.v, apu.v, apv.v, key_len)
        ek  == EncryptedKey(self, z.v, key, key_len)
        s1  == <<"set_algorithm", "generate">>
        s2  == s1 \o <<"set_claim epk", "claim apu">>
        s3  == s2 \o <<"claim apv">>
        s4  == s3 \o <<"derive">>
        s5  == s4 \o <<"content_encryption">>
        s6  == s5 \o HashSteps(key_len)
        s7  == s6 \o <<"new_encrypt">>
        s8  == s7 \o <<"wrap_key">>
    IN  IF ~gen.ok THEN Outcome(h1, JoseError("InvalidKeyFormat", gen.err), s1)
        ELSE IF ~apu.ok THEN Outcome(h2, JoseError("InvalidKeyFormat", apu.err), s2)
        ELSE IF ~apv.ok THEN Outcome(h2, JoseError("InvalidKeyFormat", apv.err), s3)
        ELSE IF ~z.ok THEN Outcome(h2, JoseError("InvalidKeyFormat", z.err), s4)
        ELSE IF ~enc.some THEN Outcome(h2, Panic, s5)
        ELSE IF IsPanic(ek) THEN Outcome(h2, Panic, s8)
        ELSE IF ~ek.ok
             THEN Outcome(h2, JoseError("InvalidKeyFormat", ek.err),
                          IF AesKey_new_encrypt(z.v).ok THEN s8 ELSE s7)
        ELSE Outcome(h2, Ok([key |-> key, encrypted_key |-> ek.v]),
                     IF ek.v.some THEN s8 ELSE s6)

encrypt(self, h, key_len, gen) ==
    LET apu == HeaderB64Claim(h, "apu")
        apv == HeaderB64Claim(h, "apv")
        h1  == set_algorithm(h, name(self.algorithm))
        map == EpkMap(self, gen.v)
        private_key == [curve |-> self.key_type.curve, d |-> gen.v]
        h2  == set_claim(h1, "epk", Object(map))
        z   == derive_to_vec(private_key, self.public_key)
        enc == content_encryption(h2)
        key == ConcatKdf(z.v, enc.v, apu.v, apv.v, key_len)
        ek  == EncryptedKey(self, z.v, key, key_len)
        s1  == <<"claim apu">>
        s2  == s1 \o <<"claim apv">>
        s3  == s2 \o <<"set_algorithm", "generate">>
        s4  == s3 \o <<"set_claim epk", "derive">>
        s5  == s4 \o <<"content_encryption">>
        s6  == s5 \o HashSteps(key_len)
        s7  == s6 \o <<"new_encrypt">>
        s8  == s7 \o <<"wrap_key">>
    IN  IF ~apu.ok THEN Outcome(h, JoseError("InvalidKeyFormat", apu.err), s1)
        ELSE IF ~apv.ok THEN Outcome(h, JoseError("InvalidKeyFormat", apv.err), s2)
        ELSE IF ~gen.ok THEN Outcome(h1, JoseError("InvalidKeyFormat", gen.err), s3)
        ELSE IF ~z.ok THEN Outcome(h2, JoseError("InvalidKeyFormat", z.err), s4)
        ELSE IF ~enc.some THEN Outcome(h2, Panic, s5)
        ELSE IF IsPanic(ek) THEN Outcome(h2, Panic, s8)
        ELSE IF ~ek.ok
             THEN Outcome(h2, JoseError("InvalidKeyFormat", ek.err),
                          IF AesKey_new_encrypt(z.v).ok THEN s8 ELSE s7)
        ELSE Outcome(h2, Ok([key |-> key, encrypted_key |-> ek.v]),
                     IF ek.v.some THEN s8 ELSE s6)

----------------------------------------------------------------------------
(* EcdhEsJweDecrypter::decrypt                                              *)

\* CheckEncryptedKey without its first arm: an encrypted key given under the
\* direct algorithm passes
CheckEncryptedKey_RequiredOnly(self, encrypted_key) ==
    IF ~encrypted_key.some /\ ~is_direct(self.algorithm)
    THEN Err(<<"encrypted_key", "is required">>) ELSE Ok(TRUE)

\* lines 475-486: the encrypted key is given exactly under a wrapping algorithm
CheckEncryptedKey(self, encrypted_key) ==
    IF encrypted_key.some
    THEN IF is_direct(self.algorithm)
         THEN Err(<<"encrypted_key", "must not exist">>) ELSE Ok(TRUE)
    ELSE IF ~is_direct(self.algorithm)
         THEN Err(<<"encrypted_key", "is required">>) ELSE Ok(TRUE)

\* match map.get(k) of the epk object: a string that decodes as base64url
EpkB64(map, k) ==
    LET p == MapGet(map, k)
    IN  IF ~p.some THEN Err(<<"epk", k, "is required">>)
        ELSE IF p.v.t # "String" THEN Err(<<"epk", k, "must be a string">>)
        ELSE LET b == decode_config(p.v.s)
             IN  IF b.ok THEN b ELSE Err(<<"epk", k, "base64">>)

\* EpkText without the comparison: any string passes
EpkText_AnyString(map, k, want) ==
    LET p == MapGet(map, k)
    IN  IF ~p.some THEN Err(<<"epk", k, "is required">>)
        ELSE IF p.v.t # "String" THEN Err(<<"epk", k, "must be a string">>)
        ELSE Ok(TRUE)

\* match map.get(k) of the epk object: the string want
EpkText(map, k, want) ==
    LET p == MapGet(map, k)
    IN  IF ~p.some THEN Err(<<"epk", k, "is required">>)
        ELSE IF p.v.t # "String" THEN Err(<<"epk", k, "must be a string">>)
        ELSE IF p.v.s # want THEN Err(<<"epk", k, "is invalid">>)
        ELSE Ok(TRUE)

\* lines 505-575: the ephemeral public key of the header's "epk" claim
EpkPublicKey(self, h) ==
    LET c == claim(h, "epk")
    IN  IF ~c.some THEN Err(<<"epk", "must have epk header claim">>)
        ELSE IF c.v.t # "Object" THEN Err(<<"epk", "must be object">>)
        ELSE
            LET map == c.v.m
                kty == EpkText(map, "kty", key_type(self.key_type))
                crv == EpkText(map, "crv", curve_name(self.key_type))
                x   == EpkB64(map, "x")
                y   == EpkB64(map, "y")
            IN  IF ~kty.ok THEN kty
                ELSE IF ~crv.ok THEN crv
                ELSE IF self.key_type.fam = "Ec" THEN
                    IF ~x.ok THEN x
                    ELSE IF ~y.ok THEN y
                    ELSE public_key_from_der(
                             to_pkcs8(<<4>> \o x.v \o y.v, TRUE, self.key_type.curve))
                ELSE
                    IF ~x.ok THEN x
                    ELSE public_key_from_der(
                             to_pkcs8(x.v, TRUE, self.key_type.curve))

\* lines 609-632: the key decrypt returns
DecryptedKey(self, derived_key, key, encrypted_key, key_len) ==
    IF is_direct(self.algorithm) THEN
        IF ~encrypted_key.some THEN Panic
        ELSE
            LET aes == AesKey_new_encrypt(derived_key)
                u   == unwrap_key(aes.v, key_len + WrapOverhead, encrypted_key.v)
            IN  IF ~aes.ok THEN aes ELSE u
    ELSE Ok(key)

\* the steps of lines 609-632
DecryptedKeySteps(self, derived_key, encrypted_key) ==
    IF is_direct(self.algorithm) THEN
        IF ~encrypted_key.some THEN <<>>
        ELSE IF ~AesKey_new_encrypt(derived_key).ok THEN <<"new_encrypt">>
        ELSE <<"new_encrypt", "unwrap_key">>
    ELSE <<>>

decrypt(self, h, encrypted_key, key_len) ==
    LET chk == CheckEncryptedKey(self, encrypted_key)
        apu == HeaderB64Claim(h, "apu")
        apv == HeaderB64Claim(h, "apv")
        public_key == EpkPublicKey(self, h)
        z   == derive_to_vec(self.private_key, public_key.v)
        enc == content_encryption(h)
        key == ConcatKdf(z.v, enc.v, apu.v, apv.v, key_len)
        out == DecryptedKey(self, z.v, key, encrypted_key, key_len)
        s0  == <<"check encrypted_key">>
        s1  == s0 \o <<"claim apu">>
        s2  == s1 \o <<"claim apv">>
        s3  == s2 \o <<"claim epk">>
        s4  == s3 \o <<"derive">>
        s5  == s4 \o <<"content_encryption">>
        s6  == s5 \o HashSteps(key_len)
        s7  == s6 \o DecryptedKeySteps(self, z.v, encrypted_key)
    IN  IF ~chk.ok THEN Outcome(h, JoseError("InvalidJweFormat", chk.err), s0)
        ELSE IF ~apu.ok THEN Outcome(h, JoseError("InvalidJweFormat", apu.err), s1)
        ELSE IF ~apv.ok THEN Outcome(h, JoseError("InvalidJweFormat", apv.err), s2)
        ELSE IF ~public_key.ok
             THEN Outcome(h, JoseError("InvalidJweFormat", public_key.err), s3)
        ELSE IF ~z.ok THEN Outcome(h, JoseError("InvalidJweFormat", z.err), s4)
        ELSE IF ~enc.some THEN Outcome(h, Panic, s5)
        ELSE IF IsPanic(out) THEN Outcome(h, Panic, s7)
        ELSE IF ~out.ok THEN Outcome(h, JoseError("InvalidJweFormat", out.err), s7)
        ELSE Outcome(h, Ok(out.v), s7)

----------------------------------------------------------------------------
(* inputs: key representations, headers, key identifiers                    *)

\* the private JWK of the key pair with scalar d on a curve
PrivateJwk(kt, d) ==
    [kty     |-> key_type(kt),
     use     |-> None,
     key_ops |-> {"deriveKey"},
     alg     |-> None,
     kid     |-> None,
     params  |-> [k \in {"crv", "d"} \cup DOMAIN to_jwk_public_key(kt, d) |->
                     IF k = "crv" THEN String(curve_name(kt))
                     ELSE IF k = "d" THEN String(encode_config(<<d>>))
                     ELSE to_jwk_public_key(kt, d)[k]]]

\* a map without one key
Without(m, k) == [c \in DOMAIN m \ {k} |-> m[c]]

\* its public half
PublicJwk(kt, d) ==
    [PrivateJwk(kt, d) EXCEPT !.params = Without(@, "d")]

KeyIds == {None, Some("kid-1")}

\* base64url texts: "QQ" is the byte 65, "QR" has bits left over, "Q" is too
\* short, "!!" is outside the alphabet
Text(chars) == String(chars)

GoodB64 == Text(<<"Q", "Q">>)

BadB64s == {Text(<<"Q", "R">>), Text(<<"!", "!">>), Text(<<"Q">>)}

\* a key with one field changed the way a caller can get it wrong (or right)
JwkVariants(j) ==
    {j,
     [j EXCEPT !.use = Some("enc")],
     [j EXCEPT !.use = Some("sig")],
     [j EXCEPT !.key_ops = {}],
     [j EXCEPT !.key_ops = {"sign", "verify"}],
     [j EXCEPT !.key_ops = {"deriveKey", "deriveBits"}],
     [j EXCEPT !.kty = "RSA"],
     [j EXCEPT !.kty = IF @ = "EC" THEN "OKP" ELSE "EC"],
     [j EXCEPT !.alg = Some("ECDH-ES")],
     [j EXCEPT !.alg = Some("ECDH-ES+A128KW")],
     [j EXCEPT !.kid = Some("kid-1")],
     [j EXCEPT !.use = Some("sig"), !.key_ops = {}],
     [j EXCEPT !.params = Without(@, "crv")],
     [j EXCEPT !.params["crv"] = Number(1)],
     [j EXCEPT !.params["crv"] = String("P-192")],
     [j EXCEPT !.params = Without(@, "x")],
     [j EXCEPT !.params["x"] = Number(1)],
     [j EXCEPT !.params["x"] = Text(<<"!", "!">>)],
     [j EXCEPT !.params["x"] = Text(<<"Q", "Q">>)],
     [j EXCEPT !.params = Without(@, "y")]}

\* the keys handed to the constructors: every curve's key pair, public and
\* private, and the variants of the P-256 and X25519 ones
Jwks ==
    {PrivateJwk(kt, 2) : kt \in KeyTypes} \cup {PublicJwk(kt, 2) : kt \in KeyTypes}
    \cup UNION {JwkVariants(PrivateJwk(kt, 2)) \cup JwkVariants(PublicJwk(kt, 2)) :
                  kt \in {Ec("P256"), X("X25519")}}

\* the key operations or use of a key forbid key agreement for encryption
Forbidden(jwk) ==
    \/ ~is_for_key_operation(jwk, "deriveKey")
    \/ jwk.use.some /\ jwk.use.v # "enc"

\* the "epk" object of the public half of scalar d
Epk(kt, d) ==
    Object([k \in {"kty", "crv"} \cup DOMAIN to_jwk_public_key(kt, d) |->
               IF k = "kty" THEN String(key_type(kt))
               ELSE IF k = "crv" THEN String(curve_name(kt))
               ELSE to_jwk_public_key(kt, d)[k]])

\* headers a caller builds or receives: "enc" with each combination of apu
\* and apv, a malformed apu or apv, no "enc", and "epk" claims of other
\* senders, well-formed and not
Headers ==
    LET enc == [enc |-> String("A128GCM")]
        epk(v) == set_claim(enc, "epk", v)
    IN  {enc,
         set_claim(enc, "apu", GoodB64),
         set_claim(enc, "apv", GoodB64),
         set_claim(set_claim(enc, "apu", GoodB64), "apv", Text(<<"Q", "g">>)),
         set_claim(enc, "apu", Number(1)),
         set_claim(enc, "apv", Number(1)),
         [alg |-> String("none")],
         epk(Number(1)),
         epk(Epk(Ec("P256"), 2)),
         epk(Epk(X("X25519"), 2)),
         epk(Object([kty |-> String("OKP"), crv |-> String("P-256"),
                     x |-> GoodB64, y |-> GoodB64])),
         epk(Object([kty |-> String("EC"), crv |-> String("P-256")])),
         epk(Object([crv |-> String("X448"), x |-> GoodB64]))}
        \cup {set_claim(enc, "apu", b) : b \in BadB64s}
        \cup {set_claim(enc, "apv", b) : b \in {Text(<<"!", "!">>)}}

----------------------------------------------------------------------------
(* the state machine                                                        *)

\* the algorithm value, an encrypter and a decrypter built by it from the two
\* halves of a recipient's key pair, and a header
Init ==
    /\ algorithm \in Algorithms
    /\ \E kt \in KeyTypes :
          /\ encrypter = Some(encrypter_from_jwk(algorithm, PublicJwk(kt, 2)).v)
          /\ decrypter = Some(decrypter_from_jwk(algorithm, PrivateJwk(kt, 2)).v)
    /\ header = [enc |-> String("A128GCM")]
    /\ ret = [op |-> "new"]
    /\ last_enc = None

\* the caller starts on another header
NewHeader(h) ==
    /\ header' = h
    /\ ret' = [op |-> "header"]
    /\ last_enc' = None
    /\ UNCHANGED <<algorithm, encrypter, decrypter>>

Encrypt(key_len, gen) ==
    /\ encrypter.some
    /\ LET out == encrypt(encrypter.v, header, key_len, gen)
       IN  /\ header' = out.header
           /\ ret' = [op |-> "encrypt", epk_before |-> claim(header, "epk"),
                      key_len |-> key_len, result |-> out.result,
                      steps |-> out.steps]
           /\ last_enc' = IF out.result.ok
                          THEN Some([key_len |-> key_len, key |-> out.result.v.key,
                                     encrypted_key |-> out.result.v.encrypted_key])
                          ELSE None
    /\ UNCHANGED <<algorithm, encrypter, decrypter>>

\* an encrypted key that no encrypter produced
StrayKey == [len |-> 40, stray |-> TRUE]

\* the encrypted keys a caller may pass: none, the one the last encrypt
\* returned with this header, or a stray one
EncryptedKeys ==
    {None, Some(StrayKey)}
    \cup IF last_enc.some THEN {last_enc.v.encrypted_key} ELSE {}

Decrypt(encrypted_key, key_len) ==
    /\ decrypter.some
    /\ LET out == decrypt(decrypter.v, header, encrypted_key, key_len)
       IN  /\ header' = out.header
           /\ ret' = [op |-> "decrypt",
                      encrypted_key |-> encrypted_key, key_len |-> key_len,
                      result |-> out.result, steps |-> out.steps]
    /\ UNCHANGED <<algorithm, encrypter, decrypter, last_enc>>

EncrypterSetKeyId(key_id) ==
    /\ encrypter.some
    /\ encrypter' = Some(set_key_id(encrypter.v, key_id))
    /\ ret' = [op |-> "encrypter.set_key_id", key_id |-> key_id]
    /\ UNCHANGED <<algorithm, decrypter, header, last_enc>>

DecrypterSetKeyId(key_id) ==
    /\ decrypter.some
    /\ decrypter' = Some(set_key_id(decrypter.v, key_id))
    /\ ret' = [op |-> "decrypter.set_key_id", key_id |-> key_id]
    /\ UNCHANGED <<algorithm, encrypter, header, last_enc>>

\* what generate can return: a fresh private scalar, or a backend failure
Generated == {Ok(d) : d \in Scalars} \cup {Err(<<"generate">>)}

Next ==
    \/ \E h \in Headers : NewHeader(h)
    \/ \E key_len \in KeyLens, gen \in Generated : Encrypt(key_len, gen)
    \/ \E key_len \in KeyLens, ek \in EncryptedKeys : Decrypt(ek, key_len)

Spec == Init /\ [][Next]_vars

\* the calls of an instance's life, set_key_id among them, on the headers
\* with and without apu
KeyIdHeaders ==
    {[enc |-> String("A128GCM")],
     set_claim([enc |-> String("A128GCM")], "apu", GoodB64)}

NextKeyId ==
    \/ \E h \in KeyIdHeaders : NewHeader(h)
    \/ \E key_len \in {16, 50}, gen \in Generated : Encrypt(key_len, gen)
    \/ \E key_len \in {16, 50}, ek \in EncryptedKeys : Decrypt(ek, key_len)
    \/ \E key_id \in KeyIds : EncrypterSetKeyId(key_id)
    \/ \E key_id \in KeyIds : DecrypterSetKeyId(key_id)

SpecKeyId == Init /\ [][NextKeyId]_vars

----------------------------------------------------------------------------
(* the constructors alone: each instance is constructed once, from no        *)
(* instance, on the keys of Jwks                                            *)

InitJwk ==
    /\ algorithm \in Algorithms
    /\ encrypter = None
    /\ decrypter = None
    /\ header = [enc |-> String("A128GCM")]
    /\ ret = [op |-> "new"]
    /\ last_enc = None

EncrypterFromJwk(jwk) ==
    /\ ~encrypter.some
    /\ LET r == encrypter_from_jwk(algorithm, jwk)
       IN  /\ encrypter' = IF r.ok THEN Some(r.v) ELSE encrypter
           /\ ret' = [op |-> "encrypter_from_jwk", jwk |-> jwk, result |-> r]
    /\ UNCHANGED <<algorithm, decrypter, header, last_enc>>

DecrypterFromJwk(jwk) ==
    /\ ~decrypter.some
    /\ LET r == decrypter_from_jwk(algorithm, jwk)
       IN  /\ decrypter' = IF r.ok THEN Some(r.v) ELSE decrypter
           /\ ret' = [op |-> "decrypter_from_jwk", jwk |-> jwk, result |-> r]
    /\ UNCHANGED <<algorithm, encrypter, header, last_enc>>

NextJwk ==
    \/ \E jwk \in Jwks : EncrypterFromJwk(jwk)
    \/ \E jwk \in Jwks : DecrypterFromJwk(jwk)

SpecJwk == InitJwk /\ [][NextJwk]_vars

----------------------------------------------------------------------------
(* properties                                                               *)

Wrapping(alg) == alg \in {"EcdhEsA128Kw", "EcdhEsA192Kw", "EcdhEsA256Kw"}

\* decrypt was the last call, with the header and encrypted key the last
\* encrypt left, and the same key length
DecryptedWhatWasEncrypted ==
    /\ ret.op = "decrypt"
    /\ last_enc.some
    /\ ret.encrypted_key = last_enc.v.encrypted_key
    /\ ret.key_len = last_enc.v.key_len

\* C1: with encrypter and decrypter built from the two halves of one key pair,
\* decrypt of the header and wrapped key that encrypt left succeeds and returns
\* the key encrypt returned, of key_len bytes.
C1_RoundTrip ==
    DecryptedWhatWasEncrypted =>
        /\ ret.result.ok
        /\ ret.result.v = last_enc.v.key
        /\ ret.result.v.len = ret.key_len

\* C2: the key the Concat KDF loop derives has exactly key_len bytes, in
\* encrypt (which returns it) and in decrypt (which returns it under a wrapping
\* algorithm).
C2_KdfLength ==
    /\ ret.op = "encrypt" /\ ret.result.ok => ret.result.v.key.len = ret.key_len
    /\ ret.op = "decrypt" /\ ret.result.ok /\ Wrapping(decrypter.v.algorithm)
           => ret.result.v.len = ret.key_len

\* C3: a successful encrypt returns no wrapped key under EcdhEs, and a wrapped
\* key of key_len + 8 bytes under a wrapping algorithm.
C3_WrappedKeyShape ==
    ret.op = "encrypt" /\ ret.result.ok =>
        IF encrypter.v.algorithm = "EcdhEs"
        THEN ~ret.result.v.encrypted_key.some
        ELSE /\ ret.result.v.encrypted_key.some
             /\ ret.result.v.encrypted_key.v.len = ret.key_len + 8

\* decrypt was called with a wrapped key under EcdhEs, or without one under a
\* wrapping algorithm
PresenceMismatch ==
    /\ ret.op = "decrypt"
    /\ ret.encrypted_key.some = (decrypter.v.algorithm = "EcdhEs")

\* C4: decrypt with a wrapped key under EcdhEs, or with none under a wrapping
\* algorithm, returns InvalidJweFormat, having run no step but that check: it
\* read no header claim and ran no agreement, hash or unwrap.
C4_PresenceRejectedFirst ==
    PresenceMismatch =>
        /\ IsErr(ret.result, "InvalidJweFormat")
        /\ ret.steps = <<"check encrypted_key">>

C4_Witness ==
    /\ PresenceMismatch
    /\ ret.encrypted_key.some
    /\ IsErr(ret.result, "InvalidJweFormat")
    /\ content_encryption(header).some
    /\ claim(header, "epk").some

\* the header passes every check of decrypt
ValidForDecrypt ==
    /\ HeaderB64Claim(header, "apu").ok
    /\ HeaderB64Claim(header, "apv").ok
    /\ EpkPublicKey(decrypter.v, header).ok
    /\ content_encryption(header).some

\* C5: on a valid header, decrypt under a wrapping algorithm with a wrapped key
\* runs the unwrap step and returns what the wrapped key unwraps to, and
\* decrypt under EcdhEs with no wrapped key returns the Concat KDF output
\* without an unwrap step.
C5_DecryptUnwraps ==
    ret.op = "decrypt" /\ ValidForDecrypt =>
        /\ Wrapping(decrypter.v.algorithm) /\ ret.encrypted_key.some
               => /\ "unwrap_key" \in {ret.steps[i] : i \in DOMAIN ret.steps}
                  /\ ret.result.ok /\ "wrapped" \in DOMAIN ret.encrypted_key.v
                         => ret.result.v = ret.encrypted_key.v.wrapped
        /\ decrypter.v.algorithm = "EcdhEs" /\ ~ret.encrypted_key.some
               => /\ ret.result.ok
                  /\ "unwrap_key" \notin {ret.steps[i] : i \in DOMAIN ret.steps}

\* C6: under a wrapping algorithm the key that encrypt wraps with is the
\* Concat KDF output, not the shared secret Z; what it wraps is a key of
\* key_len bytes other than the wrapping key, and that is the key returned.
C6_WrapsUnderDerivedKey ==
    ret.op = "encrypt" /\ ret.result.ok /\ ret.result.v.encrypted_key.some =>
        LET w == ret.result.v.encrypted_key.v
        IN  /\ "blocks" \in DOMAIN w.kek
            /\ "z" \notin DOMAIN w.kek
            /\ w.wrapped # w.kek
            /\ w.wrapped.len = ret.key_len
            /\ ret.result.v.key = w.wrapped

\* the "epk" claim is absent or no object, or its "kty" or "crv" is not the
\* decrypter's
EpkMismatch(self, h) ==
    LET c == claim(h, "epk")
    IN  \/ ~c.some
        \/ c.v.t # "Object"
        \/ /\ c.v.t = "Object"
           /\ \/ /\ "crv" \in DOMAIN c.v.m
                 /\ c.v.m["crv"] # String(CurveName(self.key_type.curve))
              \/ /\ "kty" \in DOMAIN c.v.m
                 /\ c.v.m["kty"] # String(IF self.key_type.fam = "Ec" THEN "EC" ELSE "OKP")

\* C7: decrypt on a header whose "epk" is absent, is no object, or names a
\* "crv" or "kty" other than the decrypter's returns InvalidJweFormat and no
\* key, and leaves the decrypter, its curve included, as it was.
C7_EpkMismatchRejected ==
    [][ret'.op = "decrypt" /\ EpkMismatch(decrypter.v, header) =>
           /\ IsErr(ret'.result, "InvalidJweFormat")
           /\ decrypter' = decrypter]_vars

\* decrypt reached the epk check and rejected another curve's key of the
\* decrypter's own family
C7_Witness ==
    /\ ret.op = "decrypt"
    /\ ret.steps = <<"check encrypted_key", "claim apu", "claim apv", "claim epk">>
    /\ claim(header, "epk").some
    /\ claim(header, "epk").v.t = "Object"
    /\ DOMAIN claim(header, "epk").v.m = {"kty", "crv", "x", "y"}
    /\ claim(header, "epk").v.m["kty"] = String(key_type(decrypter.v.key_type))
    /\ claim(header, "epk").v.m["crv"] # String(curve_name(decrypter.v.key_type))
    /\ IsErr(ret.result, "InvalidJweFormat")

\* C8: encrypter_from_jwk and decrypter_from_jwk return InvalidKeyFormat and
\* construct nothing for a key whose operations do not permit "deriveKey" or
\* whose "use" is present and not "enc".
C8_ForbiddenKeyRejected ==
    /\ ret.op = "encrypter_from_jwk" /\ Forbidden(ret.jwk)
           => IsErr(ret.result, "InvalidKeyFormat") /\ ~encrypter.some
    /\ ret.op = "decrypter_from_jwk" /\ Forbidden(ret.jwk)
           => IsErr(ret.result, "InvalidKeyFormat") /\ ~decrypter.some

\* a key fit in all but its use was refused
C8_Witness ==
    /\ ret.op = "decrypter_from_jwk"
    /\ ret.jwk.use = Some("sig")
    /\ is_for_key_operation(ret.jwk, "deriveKey")
    /\ IsErr(ret.result, "InvalidKeyFormat")
    /\ ~decrypter.some

\* C9: after a successful encrypt the header's "alg" is the encrypter's
\* algorithm name and its "epk" is an object of "kty", "crv", "x", and "y"
\* exactly on a named curve, with the encrypter's key type label and curve
\* name, whatever "epk" the header held before.
C9_HeaderAfterEncrypt ==
    ret.op = "encrypt" /\ ret.result.ok =>
        LET self == encrypter.v
            epk  == claim(header, "epk")
        IN  /\ claim(header, "alg") = Some(String(name(self.algorithm)))
            /\ epk.some
            /\ epk.v.t = "Object"
            /\ DOMAIN epk.v.m = {"kty", "crv", "x"}
                   \cup (IF self.key_type \in {Ec(c) : c \in EcCurves} THEN {"y"} ELSE {})
            /\ epk.v.m["kty"] = String(IF self.key_type.fam = "Ec" THEN "EC" ELSE "OKP")
            /\ epk.v.m["crv"] = String(CurveName(self.key_type.curve))
            /\ epk.v.m["x"].t = "String"
            /\ \E d \in Scalars : decode_config(epk.v.m["x"].s) = Ok(<<PublicOf(d)>>)

\* an encrypt on a Montgomery curve replaced the "epk" of another sender
C9_Witness ==
    /\ ret.op = "encrypt"
    /\ ret.result.ok
    /\ encrypter.v.key_type.fam = "X"
    /\ ret.epk_before.some
    /\ ret.epk_before # claim(header, "epk")

\* the fields of an instance but its key_id
Fixed(inst) == [k \in DOMAIN inst.v \ {"key_id"} |-> inst.v[k]]

\* C10: no call changes the algorithm, key type or key of an encrypter or
\* decrypter; encrypt and decrypt change no field of either, and set_key_id
\* changes the key_id of its instance alone, to the value given, None included.
C10_OnlyKeyIdChanges ==
    [][/\ Fixed(encrypter') = Fixed(encrypter)
       /\ Fixed(decrypter') = Fixed(decrypter)
       /\ ret'.op \in {"encrypt", "decrypt"}
              => encrypter' = encrypter /\ decrypter' = decrypter
       /\ ret'.op = "encrypter.set_key_id"
              => /\ encrypter'.v.key_id = ret'.key_id
                 /\ decrypter' = decrypter
                 /\ header' = header
       /\ ret'.op = "decrypter.set_key_id"
              => /\ decrypter'.v.key_id = ret'.key_id
                 /\ encrypter' = encrypter
                 /\ header' = header]_vars

\* an identifier was set, the instance was used, and the identifier was
\* cleared again
C10_Witness ==
    /\ ret.op = "encrypter.set_key_id"
    /\ ret.key_id = None
    /\ encrypter.v.key_id = None
    /\ decrypter.v.key_id = Some("kid-1")
    /\ last_enc.some

\* the parameter k of a key is absent, is no string, or does not decode
BadParameter(jwk, k) ==
    \/ k \notin DOMAIN jwk.params
    \/ /\ k \in DOMAIN jwk.params
       /\ \/ jwk.params[k].t # "String"
          \/ /\ jwk.params[k].t = "String"
             /\ ~decode_config(jwk.params[k].s).ok

\* C11: encrypter_from_jwk and decrypter_from_jwk return InvalidKeyFormat for
\* a key, EC or OKP, whose "x" is absent, is no string, or is not base64url.
C11_XRequired ==
    ret.op \in {"encrypter_from_jwk", "decrypter_from_jwk"} /\ BadParameter(ret.jwk, "x")
        => IsErr(ret.result, "InvalidKeyFormat")

\* the claim k of a header is present and is no string or does not decode
BadB64Claim(h, k) ==
    /\ k \in DOMAIN h
    /\ \/ h[k].t # "String"
       \/ /\ h[k].t = "String"
          /\ ~decode_config(h[k].s).ok

\* the cryptographic steps among the steps of the last call
CryptoSteps ==
    {ret.steps[i] : i \in DOMAIN ret.steps}
        \cap {"generate", "derive", "hash", "new_encrypt", "wrap_key", "unwrap_key"}

\* the last call, an encrypt or a decrypt, was given what one of the checks on
\* the wrapped key's presence, on apu and apv, or (decrypt) on epk refuses
FailsValidation ==
    /\ ret.op \in {"encrypt", "decrypt"}
    /\ \/ BadB64Claim(header, "apu")
       \/ BadB64Claim(header, "apv")
       \/ /\ ret.op = "decrypt"
          /\ \/ PresenceMismatch
             \/ EpkMismatch(decrypter.v, header)

\* the header of the last call, an encrypt or a decrypt, has no "enc"
LacksEnc ==
    /\ ret.op \in {"encrypt", "decrypt"}
    /\ ("enc" \notin DOMAIN header \/ header["enc"].t # "String")

C13_BadApuLeavesHeader ==
    [][ret'.op = "encrypt" /\ (BadB64Claim(header, "apu") \/ BadB64Claim(header, "apv"))
           => /\ "err" \in DOMAIN ret'.result
              /\ header' = header
              /\ "generate" \notin {ret'.steps[i] : i \in DOMAIN ret'.steps}]_vars

\* encrypt refused an "apv" outside the alphabet and wrote nothing
C13_Witness ==
    /\ ret.op = "encrypt"
    /\ BadB64Claim(header, "apv")
    /\ ~BadB64Claim(header, "apu")
    /\ IsErr(ret.result, "InvalidKeyFormat")
    /\ "alg" \notin DOMAIN header
    /\ "epk" \notin DOMAIN header

====
